---- MODULE Spec2Model ----
(***************************************************************************)
(* SmartQuizHub: the student's quiz session (QuizzesTab), its countdown,   *)
(* scoring, the quiz list's availability status and the leaderboard        *)
(* ranking, over a model of the documents the Firestore backend holds.     *)
(*                                                                         *)
(* One student client is modelled in full.  A React event handler runs to  *)
(* completion and its state updates are committed together; an `await`     *)
(* splits a handler into steps, which are separate actions here.  The      *)
(* interval callback of the countdown effect keeps the handleSubmitQuiz    *)
(* closure of the render in which the effect last ran (the effect's        *)
(* dependencies are quizStarted and timeLeft only).                        *)
(***************************************************************************)
EXTENDS Integers, Sequences, FiniteSets, TLC

\* ------------------------------------------------------------------ bounds
\* The wall clock takes the values 0..MaxTime.  Clock values order the events
\* against the quiz window; they are not seconds of the countdown.
MaxTime == 2
\* At most MaxPending calls of startQuiz, and of handleSubmitQuiz, are in flight.
MaxPending == 2
\* At most MaxSessions sessions are started in one run.
MaxSessions == 2
\* Ticks of the countdown per minute of quiz duration.  startQuiz multiplies
\* durationMinutes by 60; the model runs the same countdown with a shorter
\* minute, so that a session passes through a tick that only decrements
\* (prev > 1) and the tick of expiry (prev <= 1).
SecondsPerMinute == 2
\* The pure functions are applied to dates in 0..MaxDate, to every question
\* bank of at most MaxQuestions questions with every answer sequence of the
\* same length, to uniform banks of at most MaxBankLen questions, and to
\* leaderboards of at most MaxEntries entries stamped in 0..MaxStamp.
MaxDate == 4
MaxQuestions == 2
MaxBankLen == 40
MaxEntries == 3
MaxStamp == 2
\* startQuiz is applied to quizzes of at most MaxLoaded questions (the form allows
\* 5 to 50) and at most MaxDuration minutes.
MaxLoaded == 12
MaxDuration == 2

VARIABLES
    clock,                \* Date.now() / new Date()
    quizDocs,             \* rooms/{room}/quizzes/{quizId}
    questionDocs,         \* rooms/{room}/quizzes/{quizId}/questions/{index}
    submissionDocs,       \* rooms/{room}/quizzes/{quizId}/submissions/{studentId}
    leaderboardDocs,      \* rooms/{room}/leaderboard/{docId}
    loading,              \* QuizzesTab state
    quizzes,
    selectedQuiz,
    quizQuestions,
    currentQuestionIndex,
    answers,
    quizStarted,
    timeLeft,
    timer,                \* the interval of the countdown effect and the closure it holds
    pendingFetches,       \* fetchQuizzes calls awaiting their reads
    pendingStarts,        \* startQuiz calls awaiting getDocs(questions)
    writes,               \* handleSubmitQuiz calls awaiting a setDoc, in issue order
    sessions,             \* history: the number of sessions started so far
    probe,                \* a pure function, its arguments and its result
    leaderboards,         \* LeaderboardTab state: the leaderboards last fetched
    documentDocs,         \* documents/{documentId}
    createQuiz,           \* CreateQuizTab: the position of handleSubmit and its locals
    documents             \* DocumentsTab state: the documents last fetched

storeVars == <<quizDocs, questionDocs, submissionDocs, leaderboardDocs>>
otherTabs == <<leaderboards, documentDocs, createQuiz, documents>>
sessionVars == <<selectedQuiz, quizQuestions, currentQuestionIndex, answers, quizStarted, timeLeft, timer>>
vars == <<clock, quizDocs, questionDocs, submissionDocs, leaderboardDocs, loading, quizzes,
          selectedQuiz, quizQuestions, currentQuestionIndex, answers, quizStarted, timeLeft,
          timer, pendingFetches, pendingStarts, writes, sessions, probe,
          leaderboards, documentDocs, createQuiz, documents>>

\* ------------------------------------------------------------------- data
QuizIds == {"q1"}
StudentIds == {"s1", "s2"}
\* useAuth().userProfile of the modelled client
userProfile == [id |-> "s1", name |-> "Student 1"]
\* generateQuizQuestions asks for 4 options per question, correctOption a 0-3 index
OptionIndices == 0..3

NoDoc == [exists |-> FALSE]
NoQuiz == [id |-> "null"]
NoTimer == [armed |-> FALSE]
NoProbe == [fn |-> "none"]
DocumentIds == {"d1"}
\* CreateQuizTab before its form is submitted
Idle == [pc |-> "idle", alert |-> "none"]

\* The quiz the store holds when the student opens the tab: its window opened
\* before that moment (clock 0) and closes at clock 1.  Its bank has two
\* questions, so that the session view shows Next on the first and Submit Quiz
\* on the last; each offers one option, which keeps the answer sequences few.
InitialQuizDocs ==
    [q \in QuizIds |-> [exists |-> TRUE, numberOfQuestions |-> 2, startDate |-> -1, endDate |-> 1,
                        durationMinutes |-> 1]]
InitialQuestionDocs ==
    [q \in QuizIds |-> << [correctOption |-> 0, options |-> 1], [correctOption |-> 0, options |-> 1] >>]

\* ------------------------------------------------------ pure functions
\* date-fns: isPast(date) is date < Date.now(); isAfter(a, b) is a > b; isBefore(a, b) is a < b
isPast(date, now) == date < now
isAfter(date, dateToCompare) == date > dateToCompare
isBefore(date, dateToCompare) == date < dateToCompare

\* fetchQuizzes: let status = 'upcoming'; if (isPast(endDate)) status = 'ended';
\* else if (isAfter(now, startDate) && isBefore(now, endDate)) status = 'active';
QuizStatus(now, startDate, endDate) ==
    IF isPast(endDate, now) THEN "ended"
    ELSE IF isAfter(now, startDate) /\ isBefore(now, endDate) THEN "active"
    ELSE "upcoming"

\* calculateScore's loop: answers[index] === question.correctOption
CorrectCount(questions, ans) ==
    Cardinality({i \in 1..Len(questions) : i \in DOMAIN ans /\ ans[i] = questions[i].correctOption})

\* JavaScript numbers are IEEE 754 binary64.  A positive number is held here as
\* [bits, frac]: its 53 significant bits, the leading 1 first, read as an integer
\* and divided by 2^frac.  Every operation rounds to nearest, ties to even.
Significand == 53

Pow2(k) == 2 ^ k

\* the low `width` bits of v, the highest first
IntToBits(v, width) == [i \in 1..width |-> (v \div Pow2(width - i)) % 2]

RECURSIVE BitsToInt(_)
BitsToInt(bits) ==
    IF bits = <<>> THEN 0
    ELSE IF Len(bits) = 1 THEN bits[1]
    ELSE LET half == Len(bits) \div 2
         IN BitsToInt(SubSeq(bits, 1, half)) * Pow2(Len(bits) - half)
            + BitsToInt(SubSeq(bits, half + 1, Len(bits)))

\* Long division of r / n, for 0 <= r < n, taken in limbs of 20 bits: the first
\* 53 bits after the binary point, and what is left after them.
Limb == 20
DivBits(r, n) ==
    LET r1 == (r * Pow2(Limb)) % n
        r2 == (r1 * Pow2(Limb)) % n
        last == Significand - 2 * Limb
    IN IntToBits((r * Pow2(Limb)) \div n, Limb) \o IntToBits((r1 * Pow2(Limb)) \div n, Limb)
       \o IntToBits((r2 * Pow2(last)) \div n, last)

DivRem(r, n) ==
    LET r1 == (r * Pow2(Limb)) % n
        r2 == (r1 * Pow2(Limb)) % n
    IN (r2 * Pow2(Significand - 2 * Limb)) % n

RECURSIVE LeadingZeros(_, _)
\* the number of 0 bits after the binary point of c / n before its first 1, for 0 < c < n
LeadingZeros(c, n) == IF 2 * c >= n THEN 0 ELSE 1 + LeadingZeros(2 * c, n)

\* bits + 1 (a carry out of the first bit lengthens the sequence)
Increment(bits) ==
    LET zeros == {i \in 1..Len(bits) : bits[i] = 0}
        last == IF zeros = {} THEN 0 ELSE CHOOSE i \in zeros : \A j \in zeros : j <= i
    IN IF last = 0 THEN <<1>> \o [i \in 1..Len(bits) |-> 0]
       ELSE [i \in 1..Len(bits) |-> IF i < last THEN bits[i] ELSE IF i = last THEN 1 ELSE 0]

RECURSIVE StripZeros(_)
StripZeros(bits) ==
    IF bits # <<>> /\ bits[1] = 0 THEN StripZeros(SubSeq(bits, 2, Len(bits))) ELSE bits

\* Round the exact value bits / 2^frac (plus something below its last bit when
\* `sticky`) to 53 significant bits, nearest, ties to even.
RoundToDouble(bits, frac, sticky) ==
    IF Len(bits) <= Significand /\ ~sticky THEN [bits |-> bits, frac |-> frac]
    ELSE LET keep == SubSeq(bits, 1, Significand)
             rest == SubSeq(bits, Significand + 1, Len(bits))
             roundBit == IF rest = <<>> THEN 0 ELSE rest[1]
             below == sticky \/ \E i \in 2..Len(rest) : rest[i] = 1
             up == roundBit = 1 /\ (below \/ keep[Significand] = 1)
             m == IF up THEN Increment(keep) ELSE keep
             dropped == Len(rest) + (IF Len(m) > Significand THEN 1 ELSE 0)
         IN [bits |-> SubSeq(m, 1, Significand), frac |-> frac - dropped]

\* correct / quizQuestions.length, for 0 < c < n
Quotient(c, n) ==
    LET z == LeadingZeros(c, n)
        c2 == c * Pow2(z + 1)
    IN RoundToDouble(<<1>> \o DivBits(c2 - n, n), z + 1 + Significand, DivRem(c2 - n, n) # 0)

\* x * 100: the exact product, taken in limbs, then rounded
Times100(x) ==
    LET b == x.bits
        lo == 100 * BitsToInt(SubSeq(b, Significand - Limb + 1, Significand))
        mid == 100 * BitsToInt(SubSeq(b, Significand - 2 * Limb + 1, Significand - Limb))
               + lo \div Pow2(Limb)
        hi == 100 * BitsToInt(SubSeq(b, 1, Significand - 2 * Limb)) + mid \div Pow2(Limb)
        product == StripZeros(IntToBits(hi, Limb)) \o IntToBits(mid % Pow2(Limb), Limb)
                   \o IntToBits(lo % Pow2(Limb), Limb)
    IN RoundToDouble(product, x.frac, FALSE)

\* Math.round(x): floor(x + 0.5), exactly; for x having digits on both sides of the
\* binary point or lying below 1
MathRound(x) ==
    LET pad == IF x.frac > Significand THEN [i \in 1..(x.frac - Significand) |-> 0] ELSE <<>>
        digits == pad \o x.bits
        whole == Len(digits) - x.frac
    IN BitsToInt(SubSeq(digits, 1, whole)) + digits[whole + 1]

\* Math.round((c / n) * 100) for 0 <= c <= n, n > 0
Percent(c, n) ==
    IF c = 0 THEN 0
    ELSE IF c = n THEN 100
    ELSE MathRound(Times100(Quotient(c, n)))

calculateScoreUnsetCounts(questions, ans) ==
    IF Len(questions) = 0 THEN "NaN"
    ELSE Percent(Cardinality({i \in 1..Len(questions) :
                     i \in DOMAIN ans /\ (ans[i] = questions[i].correctOption \/ ans[i] = -1)}),
                 Len(questions))

\* Math.round((correct / quizQuestions.length) * 100); 0 / 0 is NaN
calculateScore(questions, ans) ==
    IF Len(questions) = 0 THEN "NaN"
    ELSE Percent(CorrectCount(questions, ans), Len(questions))

getAnalysisStrict(score) ==
    IF score > 80 THEN "Good"
    ELSE IF score > 60 THEN "Fair"
    ELSE "Needs Improvement"

getAnalysis(score) ==
    IF score >= 80 THEN "Good"
    ELSE IF score >= 60 THEN "Fair"
    ELSE "Needs Improvement"

\* Array.prototype.sort((a, b) => b.score - a.score): stable, so entries of equal
\* score keep the order in which the snapshot returned them.
RECURSIVE InsertByScore(_, _)
InsertByScore(sorted, e) ==
    IF sorted = <<>> THEN <<e>>
    ELSE IF e.score > Head(sorted).score THEN <<e>> \o sorted
    ELSE <<Head(sorted)>> \o InsertByScore(Tail(sorted), e)

RECURSIVE SortByScore(_)
SortByScore(entries) ==
    IF entries = <<>> THEN <<>>
    ELSE InsertByScore(SortByScore(SubSeq(entries, 1, Len(entries) - 1)), entries[Len(entries)])

\* fetchLeaderboards: .sort(...).map((entry, index) => ({...entry, rank: index + 1}))
RankEntries(entries) ==
    LET sorted == SortByScore(entries)
    IN [i \in 1..Len(sorted) |-> [studentId |-> sorted[i].studentId, score |-> sorted[i].score,
                                  submittedAt |-> sorted[i].submittedAt, rank |-> i]]

\* docData.quizLinked of a document that handleSubmit has not linked yet
NoLink == "none"

DocumentUnlockedAtEnd(now, docData, roomQuizzes) ==
    IF docData.quizLinked # NoLink /\ roomQuizzes[docData.quizLinked].exists
    THEN now >= roomQuizzes[docData.quizLinked].endDate
    ELSE TRUE

\* fetchDocuments, for one document: let unlocked = true; if (docData.quizLinked)
\* and the room has that quiz, unlocked = new Date() > quizEndDate
DocumentUnlocked(now, docData, roomQuizzes) ==
    IF docData.quizLinked # NoLink /\ roomQuizzes[docData.quizLinked].exists
    THEN now > roomQuizzes[docData.quizLinked].endDate
    ELSE TRUE

\* handleDownload: whether window.open(document.fileUrl) is called
handleDownload(document) == document.unlocked

\* ---------------------------------------------------------------- rendering
\* if (loading) return the spinner; if (quizStarted && selectedQuiz) return the
\* session view; otherwise the quiz list.  The session view reads
\* currentQuestion.questionText with currentQuestion = quizQuestions[currentQuestionIndex]:
\* when that is undefined the render throws and, no error boundary being
\* declared, the application is unmounted: no view is shown any more.
SessionView ==
    /\ ~loading /\ quizStarted /\ selectedQuiz # NoQuiz
    /\ currentQuestionIndex + 1 \in DOMAIN quizQuestions
ListView == ~loading /\ ~(quizStarted /\ selectedQuiz # NoQuiz)

CountdownEffectAtZero(sel, questions, ans, started, left) ==
    IF started = quizStarted /\ left = timeLeft THEN timer
    ELSE IF started /\ left >= 0
         THEN [armed |-> TRUE, selectedQuiz |-> sel, quizQuestions |-> questions, answers |-> ans]
         ELSE NoTimer

\* useEffect(..., [quizStarted, timeLeft]) after a render with the given state: it
\* runs again only when a dependency changed; it then clears the old interval and,
\* if quizStarted && timeLeft > 0, sets a new one whose callback holds the
\* handleSubmitQuiz of that render.
CountdownEffect(sel, questions, ans, started, left) ==
    IF started = quizStarted /\ left = timeLeft THEN timer
    ELSE IF started /\ left > 0
         THEN [armed |-> TRUE, selectedQuiz |-> sel, quizQuestions |-> questions, answers |-> ans]
         ELSE NoTimer

\* ------------------------------------------------------------------- Init
\* QuizzesTab just mounted: its state is the useState defaults and the
\* fetchQuizzes call of the mount effect is in flight.
Mounted ==
    /\ clock = 0
    /\ quizDocs = InitialQuizDocs
    /\ questionDocs = InitialQuestionDocs
    /\ submissionDocs = [k \in QuizIds \X StudentIds |-> NoDoc]
    /\ leaderboardDocs = [d \in QuizIds |-> NoDoc]
    /\ loading = TRUE
    /\ quizzes = {}
    /\ selectedQuiz = NoQuiz
    /\ quizQuestions = <<>>
    /\ currentQuestionIndex = 0
    /\ answers = <<>>
    /\ quizStarted = FALSE
    /\ timeLeft = 0
    /\ timer = NoTimer
    /\ pendingFetches = 1
    /\ pendingStarts = <<>>
    /\ writes = <<>>
    /\ sessions = 0
    /\ leaderboards = {}
    /\ documentDocs = [d \in DocumentIds |-> NoDoc]
    /\ createQuiz = Idle
    /\ documents = {}

Init == Mounted /\ probe = NoProbe

\* ---------------------------------------------------------------- actions
\* Time passes.
AdvanceClock ==
    /\ clock < MaxTime
    /\ clock' = clock + 1
    /\ UNCHANGED <<storeVars, loading, quizzes, sessionVars, pendingFetches, pendingStarts,
                   writes, sessions, probe, otherTabs>>

\* fetchQuizzes, after its reads: the list entry of a quiz of the room (the score
\* and analysis it copies for display are left out)
QuizListEntry(q) ==
    [id |-> q,
     startDate |-> quizDocs[q].startDate,
     endDate |-> quizDocs[q].endDate,
     durationMinutes |-> quizDocs[q].durationMinutes,
     status |-> QuizStatus(clock, quizDocs[q].startDate, quizDocs[q].endDate),
     submitted |-> submissionDocs[<<q, userProfile.id>>].exists]

\* fetchQuizzes: its reads resolved; setQuizzes(allQuizzes), finally setLoading(false)
FetchQuizzesDone ==
    /\ pendingFetches > 0
    /\ pendingFetches' = pendingFetches - 1
    /\ quizzes' = {QuizListEntry(q) : q \in {d \in QuizIds : quizDocs[d].exists}}
    /\ loading' = FALSE
    /\ UNCHANGED <<clock, storeVars, sessionVars, pendingStarts, writes, sessions, probe, otherTabs>>

\* fetchQuizzes: a read rejected; catch logs, finally setLoading(false)
FetchQuizzesFail ==
    /\ pendingFetches > 0
    /\ pendingFetches' = pendingFetches - 1
    /\ loading' = FALSE
    /\ UNCHANGED <<clock, storeVars, quizzes, sessionVars, pendingStarts, writes, sessions, probe, otherTabs>>

\* {quiz.status === 'active' && !quiz.submitted && (<button onClick={() => startQuiz(quiz)}>...)}
StartButtonShown(quiz) == quiz.status = "active" /\ ~quiz.submitted

\* The Start Quiz button of a list entry: startQuiz(quiz) up to its await.
\* `calledAt` (the time of the call) and `hadSubmission` (whether the store held
\* the student's submission for the quiz at that time) are history fields.
StartQuizClick(quiz) ==
    /\ ListView
    /\ quiz \in quizzes
    /\ StartButtonShown(quiz)
    /\ Len(pendingStarts) < MaxPending
    /\ sessions + Len(pendingStarts) < MaxSessions
    /\ pendingStarts' = Append(pendingStarts,
                                [quiz |-> quiz,
                                 calledAt |-> clock,
                                 hadSubmission |-> submissionDocs[<<quiz.id, userProfile.id>>].exists])
    /\ UNCHANGED <<clock, storeVars, loading, quizzes, sessionVars, pendingFetches, writes,
                   sessions, probe, otherTabs>>

RemoveAt(s, i) == SubSeq(s, 1, i - 1) \o SubSeq(s, i + 1, Len(s))

\* The id of the question document CreateQuizTab writes for array index `index`:
\* `questions/${index}`, the index in decimal, as its digits
RECURSIVE DocId(_)
DocId(index) == IF index < 10 THEN <<index>> ELSE DocId(index \div 10) \o <<index % 10>>

\* the order of two document ids as strings
RECURSIVE IdBefore(_, _)
IdBefore(a, b) ==
    IF a = <<>> THEN b # <<>>
    ELSE IF b = <<>> THEN FALSE
    ELSE IF Head(a) # Head(b) THEN Head(a) < Head(b)
    ELSE IdBefore(Tail(a), Tail(b))

\* getDocs(questionsRef).docs.map(doc => doc.data()): a query without orderBy
\* returns the documents of the collection in ascending order of document id.
\* `docs[k]` is the data of the document written for array index k - 1.
getDocs(docs) ==
    LET ids == SortSeq([k \in 1..Len(docs) |-> DocId(k - 1)], IdBefore)
        IndexOf(id) == CHOOSE k \in 1..Len(docs) : DocId(k - 1) = id
    IN [k \in 1..Len(docs) |-> docs[IndexOf(ids[k])]]

\* startQuiz after its await: the state it sets
startQuiz(quiz, docs) ==
    LET questions == getDocs(docs)
    IN [selectedQuiz |-> quiz,
        quizQuestions |-> questions,
        answers |-> [k \in 1..Len(questions) |-> -1],
        currentQuestionIndex |-> 0,
        quizStarted |-> TRUE,
        timeLeft |-> quiz.durationMinutes * SecondsPerMinute]

\* startQuiz after getDocs(questions) resolved
StartQuizDone(i) ==
    /\ i \in DOMAIN pendingStarts
    /\ sessions < MaxSessions
    /\ LET quiz == pendingStarts[i].quiz
           set == startQuiz(quiz, questionDocs[quiz.id])
       IN /\ selectedQuiz' = set.selectedQuiz
          /\ quizQuestions' = set.quizQuestions
          /\ answers' = set.answers
          /\ currentQuestionIndex' = set.currentQuestionIndex
          /\ quizStarted' = set.quizStarted
          /\ timeLeft' = set.timeLeft
          /\ timer' = IF set.quizQuestions = <<>>
                      THEN NoTimer   \* the render throws; unmounting clears the interval
                      ELSE CountdownEffect(set.selectedQuiz, set.quizQuestions, set.answers,
                                           set.quizStarted, set.timeLeft)
    /\ pendingStarts' = RemoveAt(pendingStarts, i)
    /\ sessions' = sessions + 1
    /\ UNCHANGED <<clock, storeVars, loading, quizzes, pendingFetches, writes, probe, otherTabs>>

\* startQuiz: getDocs(questions) rejected; catch logs
StartQuizFail(i) ==
    /\ i \in DOMAIN pendingStarts
    /\ pendingStarts' = RemoveAt(pendingStarts, i)
    /\ UNCHANGED <<clock, storeVars, loading, quizzes, sessionVars, pendingFetches, writes,
                   sessions, probe, otherTabs>>

\* handleAnswerSelect's body: const newAnswers = [...answers];
\* newAnswers[currentQuestionIndex] = answerIndex; for an index from 0 to
\* answers.length (an assignment at answers.length appends)
SetAnswer(ans, index, answerIndex) ==
    IF index + 1 \in DOMAIN ans
    THEN [ans EXCEPT ![index + 1] = answerIndex]
    ELSE Append(ans, answerIndex)

\* An option button of the current question: handleAnswerSelect(index)
handleAnswerSelect(answerIndex) ==
    /\ SessionView
    /\ answerIndex \in 0..(quizQuestions[currentQuestionIndex + 1].options - 1)
    /\ answers' = SetAnswer(answers, currentQuestionIndex, answerIndex)
    /\ UNCHANGED <<clock, storeVars, loading, quizzes, selectedQuiz, quizQuestions,
                   currentQuestionIndex, quizStarted, timeLeft, timer,
                   pendingFetches, pendingStarts, writes, sessions, probe, otherTabs>>

Max(a, b) == IF a >= b THEN a ELSE b

\* Previous button (disabled at index 0)
Previous ==
    /\ SessionView
    /\ currentQuestionIndex # 0
    /\ currentQuestionIndex' = Max(0, currentQuestionIndex - 1)
    /\ UNCHANGED <<clock, storeVars, loading, quizzes, selectedQuiz, quizQuestions, answers,
                   quizStarted, timeLeft, timer, pendingFetches, pendingStarts, writes,
                   sessions, probe, otherTabs>>

NextQuestionPastEnd ==
    /\ SessionView
    /\ currentQuestionIndex < Len(quizQuestions)
    /\ currentQuestionIndex' = currentQuestionIndex + 1
    /\ UNCHANGED <<clock, storeVars, loading, quizzes, selectedQuiz, quizQuestions, answers,
                   quizStarted, timeLeft, timer, pendingFetches, pendingStarts, writes,
                   sessions, probe, otherTabs>>

\* Next button (rendered while currentQuestionIndex < quizQuestions.length - 1)
NextQuestion ==
    /\ SessionView
    /\ currentQuestionIndex < Len(quizQuestions) - 1
    /\ currentQuestionIndex' = currentQuestionIndex + 1
    /\ UNCHANGED <<clock, storeVars, loading, quizzes, selectedQuiz, quizQuestions, answers,
                   quizStarted, timeLeft, timer, pendingFetches, pendingStarts, writes,
                   sessions, probe, otherTabs>>

\* handleSubmitQuiz up to its first await, on the state its closure holds: the
\* calls in flight after it.  `by` (the caller) and `session` (the session during
\* which it was called) are history fields.
handleSubmitQuiz(sel, questions, ans, by) ==
    IF sel = NoQuiz THEN writes
    ELSE LET score == calculateScore(questions, ans)
         IN Append(writes, [kind |-> "submission",
                            quiz |-> sel,
                            studentId |-> userProfile.id,
                            answers |-> ans,
                            score |-> score,
                            analysis |-> getAnalysis(score),
                            submittedAt |-> clock,
                            by |-> by,
                            session |-> sessions])

\* Submit Quiz button (rendered on the last question): the handleSubmitQuiz of the current render
SubmitClick ==
    /\ SessionView
    /\ ~(currentQuestionIndex < Len(quizQuestions) - 1)
    /\ Len(writes) < MaxPending
    /\ writes' = handleSubmitQuiz(selectedQuiz, quizQuestions, answers, "click")
    /\ UNCHANGED <<clock, storeVars, loading, quizzes, sessionVars, pendingFetches,
                   pendingStarts, sessions, probe, otherTabs>>

TickNeverSubmits ==
    /\ timer.armed
    /\ LET left == IF timeLeft <= 1 THEN 0 ELSE timeLeft - 1
       IN /\ timeLeft' = left
          /\ writes' = writes
          /\ timer' = CountdownEffect(selectedQuiz, quizQuestions, answers, quizStarted, left)
    /\ UNCHANGED <<clock, storeVars, loading, quizzes, selectedQuiz, quizQuestions,
                   currentQuestionIndex, answers, quizStarted, pendingFetches, pendingStarts,
                   sessions, probe, otherTabs>>

\* The interval callback:
\* setTimeLeft(prev => { if (prev <= 1) { handleSubmitQuiz(); return 0; } return prev - 1; })
Tick ==
    /\ timer.armed
    /\ LET left == IF timeLeft <= 1 THEN 0 ELSE timeLeft - 1
       IN /\ timeLeft' = left
          /\ IF timeLeft <= 1
             THEN /\ Len(writes) < MaxPending
                  /\ writes' = handleSubmitQuiz(timer.selectedQuiz, timer.quizQuestions,
                                                timer.answers, "timer")
             ELSE writes' = writes
          /\ timer' = CountdownEffect(selectedQuiz, quizQuestions, answers, quizStarted, left)
    /\ UNCHANGED <<clock, storeVars, loading, quizzes, selectedQuiz, quizQuestions,
                   currentQuestionIndex, answers, quizStarted, pendingFetches, pendingStarts,
                   sessions, probe, otherTabs>>

\* handleSubmitQuiz: await setDoc(submissionRef, {...}) resolved.  setDoc replaces
\* whatever the path holds.  The handler goes on to setDoc(leaderboardRef, {...}).
SubmissionWriteDone ==
    /\ writes # <<>>
    /\ Head(writes).kind = "submission"
    /\ LET w == Head(writes)
       IN /\ submissionDocs' = [submissionDocs EXCEPT ![<<w.quiz.id, w.studentId>>] =
                                   [exists |-> TRUE, studentId |-> w.studentId, answers |-> w.answers,
                                    score |-> w.score, analysis |-> w.analysis,
                                    submittedAt |-> w.submittedAt]]
          /\ writes' = Append(Tail(writes), [kind |-> "leaderboard", quiz |-> w.quiz,
                                             studentId |-> w.studentId, score |-> w.score,
                                             by |-> w.by, session |-> w.session])
    /\ UNCHANGED <<clock, quizDocs, questionDocs, leaderboardDocs, loading, quizzes, sessionVars,
                   pendingFetches, pendingStarts, sessions, probe, otherTabs>>

\* handleSubmitQuiz: await setDoc(leaderboardRef, {...}) resolved: the document
\* leaderboard/{selectedQuiz.id} is replaced, the session state is cleared and
\* fetchQuizzes() is called.
LeaderboardWriteDone ==
    /\ writes # <<>>
    /\ Head(writes).kind = "leaderboard"
    /\ pendingFetches < MaxPending
    /\ LET w == Head(writes)
       IN leaderboardDocs' = [leaderboardDocs EXCEPT ![w.quiz.id] =
                                 [exists |-> TRUE, studentId |-> w.studentId,
                                  studentName |-> userProfile.name, score |-> w.score,
                                  submittedAt |-> clock]]
    /\ writes' = Tail(writes)
    /\ selectedQuiz' = NoQuiz
    /\ quizStarted' = FALSE
    /\ quizQuestions' = <<>>
    /\ answers' = <<>>
    /\ timer' = CountdownEffect(NoQuiz, <<>>, <<>>, FALSE, timeLeft)
    /\ pendingFetches' = pendingFetches + 1
    /\ UNCHANGED <<clock, quizDocs, questionDocs, submissionDocs, loading, quizzes,
                   currentQuestionIndex, timeLeft, pendingStarts, sessions, probe, otherTabs>>

WriteFailDiscards ==
    /\ writes # <<>>
    /\ writes' = Tail(writes)
    /\ selectedQuiz' = NoQuiz
    /\ quizStarted' = FALSE
    /\ quizQuestions' = <<>>
    /\ answers' = <<>>
    /\ timer' = CountdownEffect(NoQuiz, <<>>, <<>>, FALSE, timeLeft)
    /\ UNCHANGED <<clock, storeVars, loading, quizzes, currentQuestionIndex, timeLeft,
                   pendingFetches, pendingStarts, sessions, probe, otherTabs>>

\* handleSubmitQuiz: a setDoc rejected; catch logs and the handler ends
WriteFail ==
    /\ writes # <<>>
    /\ writes' = Tail(writes)
    /\ UNCHANGED <<clock, storeVars, loading, quizzes, sessionVars, pendingFetches,
                   pendingStarts, sessions, probe, otherTabs>>

Next ==
    \/ AdvanceClock
    \/ FetchQuizzesDone
    \/ FetchQuizzesFail
    \/ \E quiz \in quizzes : StartQuizClick(quiz)
    \/ \E i \in 1..MaxPending : StartQuizDone(i)
    \/ \E i \in 1..MaxPending : StartQuizFail(i)
    \/ \E answerIndex \in OptionIndices : handleAnswerSelect(answerIndex)
    \/ Previous
    \/ NextQuestion
    \/ SubmitClick
    \/ Tick
    \/ SubmissionWriteDone
    \/ LeaderboardWriteDone
    \/ WriteFail

Spec == Init /\ [][Next]_vars

\* The session with every storage write succeeding, over a run that is short
\* against the quiz window (the clock stands still).
NextLive ==
    \/ FetchQuizzesDone
    \/ FetchQuizzesFail
    \/ \E quiz \in quizzes : StartQuizClick(quiz)
    \/ \E i \in 1..MaxPending : StartQuizDone(i)
    \/ \E i \in 1..MaxPending : StartQuizFail(i)
    \/ \E answerIndex \in OptionIndices : handleAnswerSelect(answerIndex)
    \/ Previous
    \/ NextQuestion
    \/ SubmitClick
    \/ Tick
    \/ SubmissionWriteDone
    \/ LeaderboardWriteDone

\* the interval is set and its callback can run: ENABLED <<Tick>>_vars, written out
TickEnabled == timer.armed /\ (timeLeft > 1 \/ Len(writes) < MaxPending)

\* setInterval fires its callback every second while the interval is set
\* (WF_vars(Tick), with the enabling condition written out), and every pending
\* read and write settles.
SpecLive ==
    /\ Init
    /\ [][NextLive]_vars
    /\ ([]<>(~TickEnabled) \/ []<><<Tick>>_vars)
    /\ WF_vars(SubmissionWriteDone)
    /\ WF_vars(LeaderboardWriteDone)
    /\ WF_vars(FetchQuizzesDone \/ FetchQuizzesFail)

\* ------------------------------------------- the pure functions, applied
\* A probe holds one function's arguments; applying the function stores its result.
DateRange == 0..MaxDate
StatusProbes ==
    {[fn |-> "QuizStatus", now |-> n, startDate |-> s, endDate |-> e, done |-> FALSE, result |-> "none"] :
        n \in DateRange, s \in DateRange, e \in DateRange}

Question(c) == [correctOption |-> c, options |-> 4]
SlotValues == {-1} \cup OptionIndices
\* every bank of n questions, and every answer sequence of that length
Banks(n) == {[i \in 1..n |-> Question(c[i])] : c \in [1..n -> OptionIndices]}
AnswerSeqs(n) == [1..n -> SlotValues]
\* the bank of n questions whose correct option is 0, answered right k times, then wrong
UniformBank(n) == [i \in 1..n |-> Question(0)]
UniformAnswers(n, k) == [i \in 1..n |-> IF i <= k THEN 0 ELSE 1]
ScoreProbes ==
    {[fn |-> "calculateScore", questions |-> b, answers |-> a, done |-> FALSE, result |-> "none"] :
        b \in UNION {Banks(n) : n \in 1..MaxQuestions}, a \in UNION {AnswerSeqs(n) : n \in 1..MaxQuestions}}
UniformScoreProbes ==
    {[fn |-> "calculateScore", questions |-> UniformBank(p[1]), answers |-> UniformAnswers(p[1], p[2]),
      done |-> FALSE, result |-> "none"] : p \in {q \in (1..MaxBankLen) \X (0..MaxBankLen) : q[2] <= q[1]}}

AnalysisProbes ==
    {[fn |-> "getAnalysis", score |-> sc, done |-> FALSE, result |-> "none"] : sc \in 0..100}

BoardStudents == {"A", "B", "C"}
BoardScores == {70, 90}
BoardEntries ==
    [studentId : BoardStudents, score : BoardScores, submittedAt : 0..MaxStamp]
\* the documents of one quiz in the order the snapshot returns them, one per student
Snapshots ==
    UNION {{es \in [1..n -> BoardEntries] :
               \A i \in 1..n : \A j \in 1..n : i # j => es[i].studentId # es[j].studentId} :
           n \in 0..MaxEntries}
RankProbes ==
    {[fn |-> "RankEntries", entries |-> es, done |-> FALSE, result |-> "none"] : es \in Snapshots}

\* a document of the room, linked to the room's quiz or not linked, fetched at `now`
DocumentProbes ==
    {[fn |-> "fetchDocuments", now |-> n, quizLinked |-> l, endDate |-> e, done |-> FALSE,
      result |-> "none"] : n \in DateRange, l \in QuizIds \cup {NoLink}, e \in DateRange}

\* the questions array CreateQuizTab wrote, n questions long: `text` numbers the
\* questions in the order the generator returned them
GeneratedBank(n) == [k \in 1..n |-> [text |-> k, correctOption |-> 0, options |-> 4]]
StartProbes ==
    {[fn |-> "startQuiz", questions |-> GeneratedBank(n), durationMinutes |-> d, done |-> FALSE,
      result |-> "none"] : n \in 1..MaxLoaded, d \in 1..MaxDuration}

\* handleAnswerSelect called on an answers array of at most MaxQuestions slots
\* with the position at any slot or one past the last, and any option index from
\* one below to one above the four options
SelectProbes ==
    {[fn |-> "handleAnswerSelect", answers |-> a, currentQuestionIndex |-> i, answerIndex |-> o,
      done |-> FALSE, result |-> "none"] :
        a \in UNION {AnswerSeqs(n) : n \in 1..MaxQuestions}, i \in 0..MaxQuestions,
        o \in -1..4}

InitFn ==
    /\ Mounted
    /\ probe \in StatusProbes \cup {x \in ScoreProbes : Len(x.questions) = Len(x.answers)}
                 \cup UniformScoreProbes \cup AnalysisProbes \cup RankProbes \cup DocumentProbes
                 \cup StartProbes \cup {x \in SelectProbes : x.currentQuestionIndex <= Len(x.answers)}

Applied(value) ==
    /\ ~probe.done
    /\ probe' = [probe EXCEPT !.done = TRUE, !.result = value]
    /\ UNCHANGED <<clock, storeVars, loading, quizzes, sessionVars, pendingFetches, pendingStarts,
                   writes, sessions, otherTabs>>

ApplyQuizStatus ==
    /\ probe.fn = "QuizStatus"
    /\ Applied(QuizStatus(probe.now, probe.startDate, probe.endDate))

ApplyCalculateScore ==
    /\ probe.fn = "calculateScore"
    /\ Applied(calculateScore(probe.questions, probe.answers))

ApplyGetAnalysis ==
    /\ probe.fn = "getAnalysis"
    /\ Applied(getAnalysis(probe.score))

ApplyRankEntries ==
    /\ probe.fn = "RankEntries"
    /\ Applied(RankEntries(probe.entries))

\* fetchDocuments computes the document's entry; the entry is then clicked
ApplyFetchDocuments ==
    /\ probe.fn = "fetchDocuments"
    /\ LET roomQuizzes == [q \in QuizIds |-> [exists |-> TRUE, endDate |-> probe.endDate]]
           unlocked == DocumentUnlocked(probe.now, [quizLinked |-> probe.quizLinked], roomQuizzes)
       IN Applied([unlocked |-> unlocked, opened |-> handleDownload([unlocked |-> unlocked])])

\* startQuiz on a quiz of the room whose questions collection holds the probe's bank
ApplyStartQuiz ==
    /\ probe.fn = "startQuiz"
    /\ Applied(startQuiz([id |-> "q1", durationMinutes |-> probe.durationMinutes], probe.questions))

ApplyHandleAnswerSelect ==
    /\ probe.fn = "handleAnswerSelect"
    /\ Applied(SetAnswer(probe.answers, probe.currentQuestionIndex, probe.answerIndex))

NextFn ==
    \/ ApplyHandleAnswerSelect
    \/ ApplyStartQuiz
    \/ ApplyFetchDocuments
    \/ ApplyQuizStatus
    \/ ApplyCalculateScore
    \/ ApplyGetAnalysis
    \/ ApplyRankEntries

SpecFn == InitFn /\ [][NextFn]_vars

\* ------------------------------------------------ the class's leaderboard
\* The students of the room, each in a client of their own, submit the quiz, and
\* a LeaderboardTab fetches.  The sessions of these clients are not followed:
\* a call of handleSubmitQuiz arrives with the answers its session recorded.
StudentName(s) == IF s = "s1" THEN "Student 1" ELSE "Student 2"

InFlight(s) == \E i \in DOMAIN writes : writes[i].studentId = s

\* handleSubmitQuiz in the client of student s, up to its first await
PeerSubmit(s, q, ans) ==
    /\ quizDocs[q].exists
    /\ ~InFlight(s)
    /\ ~submissionDocs[<<q, s>>].exists
    /\ LET score == calculateScore(questionDocs[q], ans)
       IN writes' = Append(writes, [kind |-> "submission", quiz |-> [id |-> q], studentId |-> s,
                                    answers |-> ans, score |-> score,
                                    analysis |-> getAnalysis(score), submittedAt |-> clock])
    /\ UNCHANGED <<clock, storeVars, loading, quizzes, sessionVars, pendingFetches, pendingStarts,
                   sessions, probe, otherTabs>>

\* await setDoc(submissionRef, {...}) of the i-th call in flight resolved
PeerSubmissionWriteDone(i) ==
    /\ i \in DOMAIN writes
    /\ writes[i].kind = "submission"
    /\ LET w == writes[i]
       IN /\ submissionDocs' = [submissionDocs EXCEPT ![<<w.quiz.id, w.studentId>>] =
                                   [exists |-> TRUE, studentId |-> w.studentId, answers |-> w.answers,
                                    score |-> w.score, analysis |-> w.analysis,
                                    submittedAt |-> w.submittedAt]]
          /\ writes' = [writes EXCEPT ![i] = [kind |-> "leaderboard", quiz |-> w.quiz,
                                              studentId |-> w.studentId, score |-> w.score]]
    /\ UNCHANGED <<clock, quizDocs, questionDocs, leaderboardDocs, loading, quizzes, sessionVars,
                   pendingFetches, pendingStarts, sessions, probe, otherTabs>>

\* await setDoc(leaderboardRef, {...}) of the i-th call in flight resolved: the
\* document leaderboard/{selectedQuiz.id} is replaced
PeerLeaderboardWriteDone(i) ==
    /\ i \in DOMAIN writes
    /\ writes[i].kind = "leaderboard"
    /\ LET w == writes[i]
       IN leaderboardDocs' = [leaderboardDocs EXCEPT ![w.quiz.id] =
                                 [exists |-> TRUE, studentId |-> w.studentId,
                                  studentName |-> StudentName(w.studentId), score |-> w.score,
                                  submittedAt |-> clock]]
    /\ writes' = RemoveAt(writes, i)
    /\ UNCHANGED <<clock, quizDocs, questionDocs, submissionDocs, loading, quizzes, sessionVars,
                   pendingFetches, pendingStarts, sessions, probe, otherTabs>>

\* a setDoc of the i-th call in flight rejected
PeerWriteFail(i) ==
    /\ i \in DOMAIN writes
    /\ writes' = RemoveAt(writes, i)
    /\ UNCHANGED <<clock, storeVars, loading, quizzes, sessionVars, pendingFetches, pendingStarts,
                   sessions, probe, otherTabs>>

\* leaderboardSnapshot.docs.filter(doc => doc.id.startsWith(quizDoc.id)): the ids
\* of the collection are the quiz ids handleSubmitQuiz wrote, all of one length,
\* so the only id that starts with a quiz's id is that id
LeaderboardSnapshot(q) ==
    IF leaderboardDocs[q].exists
    THEN << [studentId |-> leaderboardDocs[q].studentId, score |-> leaderboardDocs[q].score,
             submittedAt |-> leaderboardDocs[q].submittedAt] >>
    ELSE <<>>

\* fetchLeaderboards, its reads resolved:
\* setLeaderboards(allLeaderboards.filter(lb => lb.entries.length > 0))
FetchLeaderboardsDone ==
    /\ leaderboards' =
          LET all == {[quizId |-> q, entries |-> RankEntries(LeaderboardSnapshot(q))] :
                         q \in {d \in QuizIds : quizDocs[d].exists}}
          IN {lb \in all : Len(lb.entries) > 0}
    /\ UNCHANGED <<clock, storeVars, loading, quizzes, sessionVars, pendingFetches, pendingStarts,
                   writes, sessions, probe, documentDocs, createQuiz, documents>>

NextBoard ==
    \/ AdvanceClock
    \/ \E s \in StudentIds : \E q \in QuizIds : \E ans \in [1..Len(questionDocs[q]) -> {-1, 0}] :
          PeerSubmit(s, q, ans)
    \/ \E i \in 1..MaxPending : PeerSubmissionWriteDone(i)
    \/ \E i \in 1..MaxPending : PeerLeaderboardWriteDone(i)
    \/ \E i \in 1..MaxPending : PeerWriteFail(i)
    \/ FetchLeaderboardsDone

SpecBoard == Init /\ [][NextBoard]_vars

\* ------------------------------------------------------- creating a quiz
\* CreateQuizTab.handleSubmit in a room that has no quiz yet.  Each await of the
\* handler is a step; createQuiz holds the handler's position, the form, what
\* generateQuizQuestions gave (`outcome`, `questions`) and the alert shown.
InitCreate ==
    /\ clock = 0
    /\ quizDocs = [q \in QuizIds |-> NoDoc]
    /\ questionDocs = [q \in QuizIds |-> <<>>]
    /\ submissionDocs = [k \in QuizIds \X StudentIds |-> NoDoc]
    /\ leaderboardDocs = [d \in QuizIds |-> NoDoc]
    /\ loading = TRUE
    /\ quizzes = {}
    /\ selectedQuiz = NoQuiz
    /\ quizQuestions = <<>>
    /\ currentQuestionIndex = 0
    /\ answers = <<>>
    /\ quizStarted = FALSE
    /\ timeLeft = 0
    /\ timer = NoTimer
    /\ pendingFetches = 1
    /\ pendingStarts = <<>>
    /\ writes = <<>>
    /\ sessions = 0
    /\ leaderboards = {}
    /\ documentDocs = [d \in DocumentIds |-> NoDoc]
    /\ createQuiz = Idle
    /\ documents = {}
    /\ probe = NoProbe

CreateStep(next) ==
    /\ createQuiz' = next
    /\ UNCHANGED <<clock, submissionDocs, leaderboardDocs, loading, quizzes, sessionVars,
                   pendingFetches, pendingStarts, writes, sessions, probe, leaderboards,
                   documents>>

\* the form is submitted: handleSubmit up to await uploadBytes(...).  The form
\* requires both dates and a duration of 10 to 180 minutes; it does not compare
\* startDate with endDate.
CreateSubmit(numberOfQuestions, startDate, endDate, durationMinutes) ==
    /\ createQuiz = Idle
    /\ CreateStep([pc |-> "upload", alert |-> "none", numberOfQuestions |-> numberOfQuestions,
                   startDate |-> startDate, endDate |-> endDate,
                   durationMinutes |-> durationMinutes, documentId |-> "none",
                   outcome |-> "none", questions |-> <<>>, quizId |-> "none"])
    /\ UNCHANGED <<quizDocs, questionDocs, documentDocs>>

\* } catch (error) { alert('Failed to create quiz. Please try again.') } finally { ... }
CreateCatch == [createQuiz EXCEPT !.pc = "idle", !.alert = "failed"]

\* any await of the handler but generateQuizQuestions rejected
CreateFail ==
    /\ createQuiz.pc \in {"upload", "document", "quiz", "questions", "link"}
    /\ CreateStep(CreateCatch)
    /\ UNCHANGED <<quizDocs, questionDocs, documentDocs>>

CreateUploadDone ==
    /\ createQuiz.pc = "upload"
    /\ CreateStep([createQuiz EXCEPT !.pc = "document"])
    /\ UNCHANGED <<quizDocs, questionDocs, documentDocs>>

\* addDoc(collection(db, 'documents'), {...}) resolved: the record has no quizLinked
CreateDocumentDone(d) ==
    /\ createQuiz.pc = "document"
    /\ ~documentDocs[d].exists
    /\ documentDocs' = [documentDocs EXCEPT ![d] = [exists |-> TRUE, quizLinked |-> NoLink]]
    /\ CreateStep([createQuiz EXCEPT !.pc = "generate", !.documentId = d])
    /\ UNCHANGED <<quizDocs, questionDocs>>

\* generateQuizQuestions resolved with JSON.parse(cleanedText): an array of any
\* number of questions, or a JSON value that is no array
CreateGenerateDone(outcome, questions) ==
    /\ createQuiz.pc = "generate"
    /\ outcome \in {"array", "object"}
    /\ outcome = "object" => questions = <<>>
    /\ CreateStep([createQuiz EXCEPT !.pc = "quiz", !.outcome = outcome, !.questions = questions])
    /\ UNCHANGED <<quizDocs, questionDocs, documentDocs>>

\* generateQuizQuestions threw (the request failed or the text is no JSON)
CreateGenerateFail ==
    /\ createQuiz.pc = "generate"
    /\ CreateStep([CreateCatch EXCEPT !.outcome = "threw"])
    /\ UNCHANGED <<quizDocs, questionDocs, documentDocs>>

\* addDoc(collection(db, `rooms/${room}/quizzes`), {...}) resolved; then
\* questions.map(...) issues the setDocs, or throws when questions is no array
CreateQuizDone(q) ==
    /\ createQuiz.pc = "quiz"
    /\ ~quizDocs[q].exists
    /\ quizDocs' = [quizDocs EXCEPT ![q] = [exists |-> TRUE,
                                           numberOfQuestions |-> createQuiz.numberOfQuestions,
                                           startDate |-> createQuiz.startDate,
                                           endDate |-> createQuiz.endDate,
                                           durationMinutes |-> createQuiz.durationMinutes]]
    /\ CreateStep(IF createQuiz.outcome = "array"
                  THEN [createQuiz EXCEPT !.pc = "questions", !.quizId = q]
                  ELSE [CreateCatch EXCEPT !.quizId = q])
    /\ UNCHANGED <<questionDocs, documentDocs>>

RECURSIVE Keep(_, _, _)
\* the entries of seq, from the i-th on, whose index is in `indices`
Keep(seq, indices, i) ==
    IF i > Len(seq) THEN <<>>
    ELSE (IF i \in indices THEN <<seq[i]>> ELSE <<>>) \o Keep(seq, indices, i + 1)

\* await Promise.all(questionPromises) resolved: every question is written
CreateQuestionsDone ==
    /\ createQuiz.pc = "questions"
    /\ questionDocs' = [questionDocs EXCEPT ![createQuiz.quizId] = createQuiz.questions]
    /\ CreateStep([createQuiz EXCEPT !.pc = "link"])
    /\ UNCHANGED <<quizDocs, documentDocs>>

\* await Promise.all(questionPromises) rejected: the other setDocs were written
CreateQuestionsFail(written) ==
    /\ createQuiz.pc = "questions"
    /\ written \subseteq DOMAIN createQuiz.questions
    /\ written # DOMAIN createQuiz.questions
    /\ questionDocs' = [questionDocs EXCEPT ![createQuiz.quizId] = Keep(createQuiz.questions, written, 1)]
    /\ CreateStep(CreateCatch)
    /\ UNCHANGED <<quizDocs, documentDocs>>

\* setDoc(doc(db, 'documents', documentRef.id), {..., quizLinked: quizRef.id}) resolved;
\* alert('Quiz created successfully!')
CreateLinkDone ==
    /\ createQuiz.pc = "link"
    /\ documentDocs' = [documentDocs EXCEPT ![createQuiz.documentId] =
                           [exists |-> TRUE, quizLinked |-> createQuiz.quizId]]
    /\ CreateStep([createQuiz EXCEPT !.pc = "idle", !.alert = "created"])
    /\ UNCHANGED <<quizDocs, questionDocs>>

\* DocumentsTab.fetchDocuments of a student of the room, its reads resolved:
\* setDocuments(allDocuments), each document with the `unlocked` computed for it
FetchDocumentsDone ==
    /\ documents' = {[id |-> d, unlocked |-> DocumentUnlocked(clock, documentDocs[d], quizDocs)] :
                         d \in {x \in DocumentIds : documentDocs[x].exists}}
    /\ UNCHANGED <<clock, storeVars, loading, quizzes, sessionVars, pendingFetches, pendingStarts,
                   writes, sessions, probe, leaderboards, documentDocs, createQuiz>>

\* the question records the generator may return: at most MaxQuestions of them
GeneratedQuestions == UNION {[1..n -> {Question(c) : c \in {0, 3}}] : n \in 0..MaxQuestions}

NextCreate ==
    \/ \E n \in 1..MaxQuestions : \E s \in DateRange : \E e \in DateRange :
          CreateSubmit(n, s, e, 1)
    \/ CreateFail
    \/ CreateUploadDone
    \/ \E d \in DocumentIds : CreateDocumentDone(d)
    \/ \E questions \in GeneratedQuestions : CreateGenerateDone("array", questions)
    \/ CreateGenerateDone("object", <<>>)
    \/ CreateGenerateFail
    \/ \E q \in QuizIds : CreateQuizDone(q)
    \/ CreateQuestionsDone
    \/ \E written \in SUBSET (1..MaxQuestions) : CreateQuestionsFail(written)
    \/ CreateLinkDone
    \/ FetchDocumentsDone

SpecCreate == InitCreate /\ [][NextCreate]_vars

\* ------------------------------------------ a quiz from creation to submission
\* A faculty member creates the room's quiz, open at the time of the run, while a
\* student of the room has the quiz list mounted.  The generator returns at most
\* MaxQuestions questions of one option each.  The run is short against the
\* quiz window: the clock stands still.
RoomQuestions == UNION {[1..n -> {[correctOption |-> 0, options |-> 1]}] : n \in 0..MaxQuestions}

NextRoom ==
    \/ CreateSubmit(MaxQuestions, -1, 1, 1)
    \/ CreateFail
    \/ CreateUploadDone
    \/ \E d \in DocumentIds : CreateDocumentDone(d)
    \/ \E questions \in RoomQuestions : CreateGenerateDone("array", questions)
    \/ CreateGenerateDone("object", <<>>)
    \/ CreateGenerateFail
    \/ \E q \in QuizIds : CreateQuizDone(q)
    \/ CreateQuestionsDone
    \/ \E written \in SUBSET (1..MaxQuestions) : CreateQuestionsFail(written)
    \/ CreateLinkDone
    \/ FetchQuizzesDone
    \/ FetchQuizzesFail
    \/ \E quiz \in quizzes : StartQuizClick(quiz)
    \/ \E i \in 1..MaxPending : StartQuizDone(i)
    \/ \E i \in 1..MaxPending : StartQuizFail(i)
    \/ \E answerIndex \in OptionIndices : handleAnswerSelect(answerIndex)
    \/ Previous
    \/ NextQuestion
    \/ SubmitClick
    \/ Tick
    \/ SubmissionWriteDone
    \/ LeaderboardWriteDone
    \/ WriteFail

SpecRoom == InitCreate /\ [][NextRoom]_vars

\* ------------------------------------------------------------- properties
\* The availability gate as specified: upcoming before start, active from start
\* (inclusive) to end (exclusive), ended from end on.
Gate(now, start, end) ==
    IF now < start THEN "upcoming" ELSE IF now < end THEN "active" ELSE "ended"

AllUnset(ans) == \A i \in DOMAIN ans : ans[i] = -1

\* the number of positions whose answer equals the question's correct option
NumCorrect(questions, ans) ==
    Cardinality({i \in DOMAIN questions : ans[i] = questions[i].correctOption})

\* num / den rounded to the nearest integer, a half going up, or to the even neighbour
RoundHalfUp(num, den) == (2 * num + den) \div (2 * den)
RoundHalfEven(num, den) ==
    LET q == num \div den
        r == num % den
    IN IF 2 * r < den THEN q
       ELSE IF 2 * r > den THEN q + 1
       ELSE IF q % 2 = 0 THEN q ELSE q + 1

\* C1: once the submission record of a (student, quiz) pair has been persisted, no
\* later step creates another one in its place or changes its stored answers,
\* score, bucket or timestamp.
C1_SubmissionNeverChanges ==
    [][\A k \in DOMAIN submissionDocs :
          submissionDocs[k].exists => submissionDocs'[k] = submissionDocs[k]]_vars

\* C2: when the expiry tick and a manual submit both fire in one session, the
\* submission write is performed for at most one of them (a handler that has
\* performed it is next awaiting its leaderboard write), so the record persisted
\* first is not overwritten by the other invocation.
C2_RaceWritesOnce ==
    \A i \in DOMAIN writes : \A j \in DOMAIN writes :
        ~(/\ writes[i].kind = "leaderboard" /\ writes[i].by = "click"
          /\ writes[j].kind = "leaderboard" /\ writes[j].by = "timer"
          /\ writes[i].session = writes[j].session)

\* C3: the tick on which the countdown reaches zero submits the session with
\* exactly the answers recorded at that moment and their score, as a manual
\* submit at that moment would.
C3_ExpirySubmitsCurrentAnswers ==
    [][(Tick /\ timeLeft <= 1) =>
          /\ Len(writes') = Len(writes) + 1
          /\ writes'[Len(writes')].answers = answers
          /\ writes'[Len(writes')].score = calculateScore(quizQuestions, answers)]_vars

\* C4: a session is entered only from a call of start made when the gate, at the
\* time of the call, reported active for the quiz and the store held no
\* submission of the student for it.
C4_StartOnlyWhenEligible ==
    [][\A i \in 1..MaxPending :
          StartQuizDone(i) =>
              /\ Gate(pendingStarts[i].calledAt, pendingStarts[i].quiz.startDate,
                      pendingStarts[i].quiz.endDate) = "active"
              /\ ~pendingStarts[i].hadSubmission]_vars

\* C5: after the student has started a session on a quiz and it has been
\* submitted, no call of start made from then on enters a session on that quiz.
C5_NoStartAfterSubmission ==
    [][\A i \in 1..MaxPending :
          ~(/\ sessions >= 1
            /\ i \in DOMAIN pendingStarts
            /\ pendingStarts[i].hadSubmission
            /\ StartQuizDone(i))]_vars

\* C6: for start < end, the status computed for the quiz list is upcoming when
\* now < start, active when start <= now < end, ended when now >= end.
C6_StatusFollowsGate ==
    (probe.fn = "QuizStatus" /\ probe.done /\ probe.startDate < probe.endDate) =>
        probe.result = Gate(probe.now, probe.startDate, probe.endDate)

\* C7: for a bank and an answer sequence of the same length, the score is an
\* integer in 0..100 and equals 100 * correctCount / questionCount rounded to the
\* nearest integer (a half rounded up, or to even).
C7_ScoreIsRoundedPercent ==
    (probe.fn = "calculateScore" /\ probe.done) =>
        LET correct == 100 * NumCorrect(probe.questions, probe.answers)
            count == Len(probe.questions)
        IN /\ probe.result \in 0..100
           /\ probe.result \in {RoundHalfUp(correct, count), RoundHalfEven(correct, count)}

\* C8: for every score in 0..100 the bucket is Good exactly when score >= 80, Fair
\* exactly when 60 <= score < 80, Needs Improvement exactly when score < 60; and
\* 7 correct answers out of 10 score 70, whose bucket is Fair.
C8_Buckets ==
    /\ (probe.fn = "getAnalysis" /\ probe.done) =>
          /\ probe.result = "Good" <=> probe.score >= 80
          /\ probe.result = "Fair" <=> (60 <= probe.score /\ probe.score < 80)
          /\ probe.result = "Needs Improvement" <=> probe.score < 60
    /\ (/\ probe.fn = "calculateScore" /\ probe.done
        /\ Len(probe.questions) = 10 /\ NumCorrect(probe.questions, probe.answers) = 7) =>
          (probe.result = 70 /\ getAnalysis(probe.result) = "Fair")

C8_BucketApplied ==
    /\ probe.fn = "getAnalysis" /\ probe.done
    /\ probe.score = 80 /\ probe.result = "Good"

\* C9: an unset slot (-1) is scored as incorrect whatever the correct option is: a
\* submission whose answers are all unset has score 0; and the expiry tick of a
\* session whose answers are all unset submits it with all answers unset and score 0.
C9_UnsetIsIncorrect ==
    /\ [](/\ \A c \in OptionIndices : calculateScore(<<Question(c)>>, <<-1>>) = 0
          /\ \A i \in DOMAIN writes :
                (writes[i].kind = "submission" /\ AllUnset(writes[i].answers)) => writes[i].score = 0
          /\ \A k \in DOMAIN submissionDocs :
                (submissionDocs[k].exists /\ AllUnset(submissionDocs[k].answers)) =>
                    submissionDocs[k].score = 0)
    /\ [][(Tick /\ timeLeft <= 1 /\ AllUnset(answers)) =>
             /\ Len(writes') = Len(writes) + 1
             /\ AllUnset(writes'[Len(writes')].answers)
             /\ writes'[Len(writes')].score = 0]_vars

C9_UntouchedSessionExpired ==
    /\ SessionView /\ timeLeft = 0 /\ AllUnset(answers)
    /\ \E i \in DOMAIN writes :
          /\ writes[i].kind = "submission" /\ writes[i].by = "timer"
          /\ writes[i].session = sessions
          /\ AllUnset(writes[i].answers) /\ writes[i].score = 0

C11_OneEntryPerStudent ==
    [][(FetchLeaderboardsDone /\ writes = <<>>) =>
          \A q \in QuizIds : \A s \in StudentIds :
              LET boards == {lb \in leaderboards' : lb.quizId = q}
                  mine == UNION {{i \in DOMAIN lb.entries : lb.entries[i].studentId = s} : lb \in boards}
                  scores == UNION {{lb.entries[i].score : i \in
                                       {j \in DOMAIN lb.entries : lb.entries[j].studentId = s}} :
                                   lb \in boards}
              IN IF submissionDocs[<<q, s>>].exists
                 THEN Cardinality(mine) = 1 /\ scores = {submissionDocs[<<q, s>>].score}
                 ELSE mine = {}]_vars

\* C12: a document linked to a quiz is reported locked when the time of the fetch
\* does not exceed the quiz's end and unlocked when it does; a document with no
\* linked quiz is reported unlocked; the download action opens the document only
\* if it is reported unlocked.
C12_LockedUntilQuizEnds ==
    (probe.fn = "fetchDocuments" /\ probe.done) =>
        /\ probe.quizLinked # NoLink => (probe.result.unlocked <=> probe.now > probe.endDate)
        /\ probe.quizLinked = NoLink => probe.result.unlocked
        /\ probe.result.opened => probe.result.unlocked

C12_LockedAtEnd ==
    /\ probe.fn = "fetchDocuments" /\ probe.done
    /\ probe.quizLinked # NoLink /\ probe.now = probe.endDate
    /\ ~probe.result.unlocked /\ ~probe.result.opened

\* the submission of the session in progress has been persisted
SessionSubmitted ==
    \E i \in DOMAIN writes : writes[i].kind = "leaderboard" /\ writes[i].session = sessions

\* C13: once the session's submission has been persisted, no selectAnswer,
\* navigate, tick or submit changes the session state or a persisted record.
C13_SubmittedIsTerminal ==
    [][(/\ SessionSubmitted
        /\ \/ \E answerIndex \in OptionIndices : handleAnswerSelect(answerIndex)
           \/ Previous
           \/ NextQuestion
           \/ Tick
           \/ SubmitClick) =>
          (sessionVars' = sessionVars /\ storeVars' = storeVars)]_vars

\* C14: no call of start enters a session while a session is in progress, so a
\* second call, issued while the first is still loading its questions, does not
\* replace or reset the session the first one entered.
C14_SingleSession ==
    [][\A i \in 1..MaxPending :
          StartQuizDone(i) => ~(quizStarted /\ selectedQuiz # NoQuiz)]_vars

\* C15: when a setDoc of a submission fails while the session is in progress, the
\* session stays in progress with its answers, selected quiz and question bank
\* unchanged, and its Submit Quiz button can start another submission.
C15_FailedWriteKeepsSession ==
    [][(WriteFail /\ SessionView) =>
          /\ SessionView'
          /\ answers' = answers
          /\ selectedQuiz' = selectedQuiz
          /\ quizQuestions' = quizQuestions
          /\ Len(writes') < MaxPending]_vars

\* the countdown has expired and its submission is neither in flight nor
\* persisted: its write failed, and the session is still in progress
C15_SessionAfterFailedWrite ==
    /\ SessionView /\ sessions = 1 /\ timeLeft = 0 /\ writes = <<>>
    /\ ~submissionDocs[<<selectedQuiz.id, userProfile.id>>].exists
    /\ Len(answers) = Len(quizQuestions)

\* C16: when handleSubmit has ended, a quiz record exists only with at least one
\* question; when question generation failed (it threw, or its output was not
\* an array of at least one question) an error was reported and no quiz record
\* was created.
C16_NoQuizWithoutQuestions ==
    (createQuiz.pc = "idle" /\ createQuiz.alert # "none") =>
        /\ \A q \in QuizIds : quizDocs[q].exists => Len(questionDocs[q]) > 0
        /\ (createQuiz.outcome = "threw" \/ createQuiz.questions = <<>>) =>
              (createQuiz.alert = "failed" /\ \A q \in QuizIds : ~quizDocs[q].exists)

\* C17: immediately after a successful start the session holds the quiz's
\* question bank in the bank's order, an answer array as long as the bank with
\* every slot -1, position 0 and a countdown of durationMinutes minutes.
C17_StartLoadsOrderedBank ==
    (probe.fn = "startQuiz" /\ probe.done) =>
        /\ probe.result.quizQuestions = probe.questions
        /\ probe.result.answers = [k \in 1..Len(probe.questions) |-> -1]
        /\ probe.result.currentQuestionIndex = 0
        /\ probe.result.quizStarted
        /\ probe.result.timeLeft = probe.durationMinutes * SecondsPerMinute

\* C18: while the session is in progress, selectAnswer writes the chosen option
\* into the slot of the current question and changes no other slot, nor the
\* position, the countdown or the question bank; once the session's submission
\* has been persisted, selectAnswer changes nothing.
C18_SelectAnswerWritesOneSlot ==
    [][\A answerIndex \in OptionIndices :
          handleAnswerSelect(answerIndex) =>
              /\ answers' = IF SessionSubmitted THEN answers
                            ELSE [answers EXCEPT ![currentQuestionIndex + 1] = answerIndex]
              /\ currentQuestionIndex' = currentQuestionIndex
              /\ timeLeft' = timeLeft
              /\ timer' = timer
              /\ quizQuestions' = quizQuestions]_vars

\* C19: Previous and Next change the position and nothing else, and while a
\* session is in progress the position is an index of the question bank.
C19_NavigateWithinBank ==
    [][/\ (Previous \/ NextQuestion) =>
             UNCHANGED <<clock, storeVars, loading, quizzes, selectedQuiz, quizQuestions, answers,
                         quizStarted, timeLeft, timer, pendingFetches, pendingStarts, writes,
                         sessions, probe, otherTabs>>
       /\ (quizStarted' /\ selectedQuiz' # NoQuiz) =>
             currentQuestionIndex' \in 0..(Len(quizQuestions') - 1)]_vars

\* Next was clicked after an answer was recorded and a tick had elapsed: the
\* session shows the last question of its bank
C19_NavigatedToLast ==
    /\ SessionView
    /\ currentQuestionIndex = Len(quizQuestions) - 1
    /\ currentQuestionIndex > 0
    /\ answers[1] # -1
    /\ timeLeft < selectedQuiz.durationMinutes * SecondsPerMinute

\* a Submit Quiz click of the session in progress has been made and its writes
\* have not ended
ManualSubmitInvoked ==
    \E i \in DOMAIN writes : writes[i].by = "click" /\ writes[i].session = sessions

\* C20: once Submit Quiz has been clicked, the interval's callback does not run
\* again for that session, so no tick is processed and the countdown cannot
\* submit.
C20_ManualSubmitCancelsCountdown ==
    [][ManualSubmitInvoked => ~Tick]_vars

\* C21: no persisted submission holds the unset sentinel -1 among its answers.
C21_NoSentinelPersisted ==
    \A k \in QuizIds \X StudentIds :
        submissionDocs[k].exists =>
            \A i \in DOMAIN submissionDocs[k].answers : submissionDocs[k].answers[i] # -1

\* C28: no persisted submission of a quiz is stamped later than the quiz's end.
C28_NoSubmissionAfterEnd ==
    \A k \in QuizIds \X StudentIds :
        submissionDocs[k].exists => submissionDocs[k].submittedAt <= quizDocs[k[1]].endDate

\* C23: every quiz record that quiz creation persists has startDate < endDate and
\* durationMinutes > 0.
C23_QuizWindowWellFormed ==
    \A q \in QuizIds :
        quizDocs[q].exists =>
            /\ quizDocs[q].startDate < quizDocs[q].endDate
            /\ quizDocs[q].durationMinutes > 0

\* the order of the three statuses in a quiz's life
StatusRank(status) == CASE status = "upcoming" -> 0 [] status = "active" -> 1 [] status = "ended" -> 2

\* C27: for start < end, the status of the quiz list never moves backwards as
\* time advances and is not upcoming at any time now >= start.
C27_StatusMonotone ==
    (probe.fn = "QuizStatus" /\ probe.done /\ probe.startDate < probe.endDate) =>
        /\ \A later \in DateRange :
              later >= probe.now =>
                  StatusRank(QuizStatus(later, probe.startDate, probe.endDate)) >=
                      StatusRank(probe.result)
        /\ probe.now >= probe.startDate => probe.result # "upcoming"

\* the rank a ranking gives to a student
RankOf(ranked, studentId) ==
    (CHOOSE i \in DOMAIN ranked : ranked[i].studentId = studentId)

C24_OutOfRangeSelectRejected ==
    (probe.fn = "handleAnswerSelect" /\ probe.done) =>
        /\ (\/ probe.currentQuestionIndex + 1 \notin DOMAIN probe.answers
            \/ probe.answerIndex \notin OptionIndices) => probe.result = probe.answers
        /\ Len(probe.result) = Len(probe.answers)
        /\ \A i \in DOMAIN probe.result : probe.result[i] \in SlotValues

\* C29: a student's document list never shows the document uploaded as the source
\* of a quiz as unlocked before the end date given for that quiz, at any step of
\* the quiz's creation or after the creation has failed.
C29_SourceDocumentLockedUntilEnd ==
    \A document \in documents :
        (document.id = createQuiz.documentId /\ clock < createQuiz.endDate) =>
            ~handleDownload(document)

\* C22: the answers of every persisted submission are as many as the question
\* count of its quiz.
C22_AnswersMatchQuestionCount ==
    \A k \in QuizIds \X StudentIds :
        submissionDocs[k].exists =>
            Len(submissionDocs[k].answers) = quizDocs[k[1]].numberOfQuestions

\* C30: the interval's callback runs only while the session is started with a
\* countdown above zero, and takes exactly one off it; while a session is in
\* progress the countdown is in 0..durationMinutes minutes.
C30_CountdownWithinBounds ==
    [][/\ Tick => (quizStarted /\ timeLeft > 0 /\ timeLeft' = timeLeft - 1)
       /\ SessionView' => timeLeft' \in 0..(selectedQuiz'.durationMinutes * SecondsPerMinute)]_vars

\* one tick of a session has been processed and the interval is set again
C30_CountdownRunning ==
    /\ SessionView /\ timer.armed
    /\ timeLeft = selectedQuiz.durationMinutes * SecondsPerMinute - 1
    /\ writes = <<>> /\ pendingStarts = <<>>

\* C26: with the interval firing and every write succeeding, a session in
\* progress ends with the student's submission persisted; when its countdown is
\* at zero its submission has been called and is being written.
C26_SessionEndsSubmitted ==
    /\ [](SessionView /\ timeLeft = 0 => writes # <<>>)
    /\ (quizStarted /\ selectedQuiz # NoQuiz) ~>
          (~quizStarted /\ \E q \in QuizIds : submissionDocs[<<q, userProfile.id>>].exists)

\* the countdown of the only session of the run expired and the session ended
\* with the answers it had recorded persisted
C26_EndedByTimeout ==
    /\ ~quizStarted /\ selectedQuiz = NoQuiz /\ sessions = 1 /\ timeLeft = 0
    /\ writes = <<>> /\ pendingStarts = <<>>
    /\ submissionDocs[<<"q1", userProfile.id>>].exists
    /\ submissionDocs[<<"q1", userProfile.id>>].answers = <<0, -1>>

====
